---- MODULE Spec2Model ----
(***************************************************************************)
(* A model of pymunin's plugin foundation (plugins/pymunin/__init__.py):   *)
(* MuninAttrFilter, MuninGraph and MuninPlugin.                            *)
(*                                                                         *)
(* Python strings that the code parses (environment values, the names that *)
(* the filters compare) are sequences of one-character strings; strings    *)
(* that are only formatted and printed are TLA+ strings.  A dict is a      *)
(* function whose DOMAIN is its key set.  A Python value of varying type   *)
(* is a tagged record (None, a str, a bool, an int, a float, an object).   *)
(***************************************************************************)
EXTENDS Integers, Sequences, FiniteSets, TLC

VARIABLES
    plugin,         \* the MuninPlugin object: the record of its attributes
    heap,           \* the MuninGraph objects, by object identity
    filter,         \* a MuninAttrFilter object constructed on its own
    filterArgs,     \* the arguments that filter was constructed from
    res             \* the last call: its name and arguments, the lines it printed,
                    \* the exception it raised, the value it returned, its callees

vars == <<plugin, heap, filter, filterArgs, res>>

(***************************************************************************)
(* Bounds of the model.                                                    *)
(***************************************************************************)
MaxGraphNames == 2      \* appendGraph calls per plugin
MaxFields == 2          \* addField calls per graph
MaxListLen == 2         \* entries of an include or exclude list

(***************************************************************************)
(* Dicts.                                                                  *)
(***************************************************************************)
EmptyDict == <<>>

HasKey(d, k) == k \in DOMAIN d

DictGet(d, k, default) == IF k \in DOMAIN d THEN d[k] ELSE default

DictPut(d, k, v) == [x \in (DOMAIN d) \cup {k} |-> IF x = k THEN v ELSE d[x]]

(***************************************************************************)
(* Python values.                                                          *)
(***************************************************************************)
None == [t |-> "none"]

StrVal(s) == [t |-> "str", s |-> s]

BoolVal(b) == [t |-> "bool", b |-> b]

IntVal(i) == [t |-> "int", i |-> i]

ObjVal(o) == [t |-> "obj", o |-> o]

DigitStr == <<"0", "1", "2", "3", "4", "5", "6", "7", "8", "9">>

RECURSIVE NatToStr(_)
NatToStr(n) == IF n < 10 THEN DigitStr[n + 1]
               ELSE NatToStr(n \div 10) \o DigitStr[(n % 10) + 1]

\* a float, held in millionths
FloatVal(micros) == [t |-> "float", micros |-> micros]

RECURSIVE PadLeft(_, _)
PadLeft(str, width) == IF Len(str) >= width THEN str ELSE PadLeft("0" \o str, width)

\* the decimals f of width digits, without their trailing zeros
RECURSIVE FracDigits(_, _)
FracDigits(f, width) ==
    IF f % 10 = 0 /\ width > 1 THEN FracDigits(f \div 10, width - 1)
    ELSE PadLeft(NatToStr(f), width)

\* str(x) of a float x >= 0 of n millionths: "%.12g", with ".0" after a whole
\* number; below 0.0001 the twelve-digit format turns to an exponent
FloatStr(n) ==
    IF n = 0 THEN "0.0"
    ELSE IF n < 10 THEN NatToStr(n) \o "e-06"
    ELSE IF n < 100
         THEN NatToStr(n \div 10)
              \o (IF n % 10 = 0 THEN "" ELSE "." \o NatToStr(n % 10)) \o "e-05"
    ELSE NatToStr(n \div 1000000) \o "." \o FracDigits(n % 1000000, 6)

\* "%s" % val
FormatS(val) ==
    CASE val.t = "str" -> val.s
      [] val.t = "int" -> IF val.i < 0 THEN "-" \o NatToStr(-val.i) ELSE NatToStr(val.i)
      [] val.t = "bool" -> IF val.b THEN "True" ELSE "False"
      [] val.t = "none" -> "None"
      [] val.t = "float" -> IF val.micros < 0 THEN "-" \o FloatStr(-val.micros)
                            ELSE FloatStr(val.micros)
      [] OTHER -> "<object>"

\* a parsed string, as the text printed for it
RECURSIVE Text(_)
Text(cs) == IF cs = <<>> THEN "" ELSE Head(cs) \o Text(Tail(cs))

(***************************************************************************)
(* Characters and the regular expressions of the module.                   *)
(***************************************************************************)
LowerCase == {"a", "b", "c", "d", "e", "f", "g", "h", "i", "j", "k", "l", "m",
              "n", "o", "p", "q", "r", "s", "t", "u", "v", "w", "x", "y", "z"}

UpperCase == {"A", "B", "C", "D", "E", "F", "G", "H", "I", "J", "K", "L", "M",
              "N", "O", "P", "Q", "R", "S", "T", "U", "V", "W", "X", "Y", "Z"}

Digits == {"0", "1", "2", "3", "4", "5", "6", "7", "8", "9"}

\* \w
WordChars == LowerCase \cup UpperCase \cup Digits \cup {"_"}

\* a pattern <class>+$ given by its character class; NoRegex is attr_regex = None
NoRegex == [kind |-> "none"]

ClassPlusEnd(class) == [kind |-> "class+$", class |-> class]

\* '\w+$', the default of registerFilter
WordRegex == ClassPlusEnd(WordChars)

\* '[\w\-]+$', the pattern of the 'graphs' filter
GraphsRegex == ClassPlusEnd(WordChars \cup {"-"})

\* re.match of <class>+$ : one or more characters of the class from the start of
\* the string up to its end, or up to a newline that ends the string
RegexMatch(regex, s) ==
    LET body == IF Len(s) > 0 /\ s[Len(s)] = "\n" THEN SubSeq(s, 1, Len(s) - 1)
                ELSE s
    IN  /\ Len(body) > 0
        /\ \A i \in 1..Len(body) : body[i] \in regex.class

\* case folding of re.IGNORECASE, on the letters the pattern below names
EqIgnoreCase(c, lower) ==
    \/ c = lower
    \/ (lower = "s" /\ c = "S")
    \/ (lower = "n" /\ c = "N")
    \/ (lower = "o" /\ c = "O")
    \/ (lower = "f" /\ c = "F")

\* the position after the longest run of s/S that starts at position p
RECURSIVE SkipS(_, _)
SkipS(s, p) == IF p <= Len(s) /\ EqIgnoreCase(s[p], "s") THEN SkipS(s, p + 1) ELSE p

\* whether the letters of word (lower case) stand at position p of s
LitAt(s, p, word) ==
    /\ p + Len(word) - 1 <= Len(s)
    /\ \A i \in 1..Len(word) : EqIgnoreCase(s[p + i - 1], word[i])

\* re.match('/s*(no|off)/s*$', s, re.IGNORECASE): a slash, any number of the
\* letter s, no or off, a slash, any number of the letter s, the end of the string
NestedOffMatch(s) ==
    /\ Len(s) >= 1
    /\ s[1] = "/"
    /\ LET p == SkipS(s, 2)
           q == IF LitAt(s, p, <<"n", "o">>) THEN p + 2
                ELSE IF LitAt(s, p, <<"o", "f", "f">>) THEN p + 3
                ELSE 0
       IN  /\ q > 0
           /\ q <= Len(s)
           /\ s[q] = "/"
           /\ LET e == SkipS(s, q + 1)
              IN  \/ e = Len(s) + 1
                  \/ (e = Len(s) /\ s[e] = "\n")

(***************************************************************************)
(* MuninAttrFilter.                                                        *)
(***************************************************************************)
\* loops that store every attr of the list, whether or not it passes the regex
RECURSIVE FilterFill_NoValidation(_, _, _, _)
FilterFill_NoValidation(attrs, list, regex, flag) ==
    IF list = <<>> THEN attrs
    ELSE FilterFill_NoValidation(DictPut(attrs, Head(list), flag),
                                 Tail(list), regex, flag)

\* the loops of __init__: attrs[attr] = flag for every attr of the list that
\* passes the regex
RECURSIVE FilterFill(_, _, _, _)
FilterFill(attrs, list, regex, flag) ==
    IF list = <<>> THEN attrs
    ELSE FilterFill(IF regex = NoRegex \/ RegexMatch(regex, Head(list))
                    THEN DictPut(attrs, Head(list), flag)
                    ELSE attrs,
                    Tail(list), regex, flag)

\* a filter that applies the exclude list before the include list
MuninAttrFilterInit_IncludeLast(list_include, list_exclude, attr_regex) ==
    LET excluded == IF list_exclude # <<>>
                    THEN FilterFill(EmptyDict, list_exclude, attr_regex, FALSE)
                    ELSE EmptyDict
        included == IF list_include # <<>>
                    THEN FilterFill(excluded, list_include, attr_regex, TRUE)
                    ELSE excluded
    IN  [attrs |-> included,
         default |-> (list_include = <<>>),
         regex |-> attr_regex]

MuninAttrFilterInit(list_include, list_exclude, attr_regex) ==
    LET included == IF list_include # <<>>
                    THEN FilterFill(EmptyDict, list_include, attr_regex, TRUE)
                    ELSE EmptyDict
        excluded == IF list_exclude # <<>>
                    THEN FilterFill(included, list_exclude, attr_regex, FALSE)
                    ELSE included
    IN  [attrs |-> excluded,
         default |-> (list_include = <<>>),
         regex |-> attr_regex]

FilterCheck(flt, attr) == DictGet(flt.attrs, attr, flt.default)

(***************************************************************************)
(* MuninGraph.  A graph object is a record of its four attributes.         *)
(***************************************************************************)
\* the parameters of __init__ after self, in order
GraphInitParams == <<"title", "category", "vlabel", "info", "args", "period",
                     "scale", "total", "order", "printfformat", "witdh", "height">>

\* the parameters of addField after self and name, in order
FieldParams == <<"label", "type", "draw", "info", "extinfo", "colour", "negative",
                 "graph", "min", "max", "cdef", "line", "warning", "critical">>

\* the keys getConfig reads from _graphAttrDict, in order
GraphAttrKeys == <<"title", "category", "vlabel", "info", "args", "period",
                   "scale", "total", "order", "printfformat", "width", "height">>

\* the keys getConfig reads from a field's attributes, in order
FieldAttrKeys == <<"label", "type", "draw", "info", "extinfo", "colour", "negative",
                   "graph", "min", "max", "cdef", "line", "warning", "critical">>

IndexOf(seq, x) == CHOOSE i \in 1..Len(seq) : seq[i] = x

\* locals() of a call: self, the leading named arguments, then every parameter
\* bound to its positional argument, or to its default None
Locals(self, named, params, args) ==
    [k \in {"self"} \cup DOMAIN named \cup {params[i] : i \in 1..Len(params)} |->
        IF k = "self" THEN ObjVal(self)
        ELSE IF k \in DOMAIN named THEN named[k]
        ELSE IF IndexOf(params, k) <= Len(args) THEN args[IndexOf(params, k)]
        ELSE None]

\* MuninGraph(*args): args are the positional arguments after self
MuninGraphInit(self, args) ==
    [graphAttrDict |-> Locals(self, EmptyDict, GraphInitParams, args),
     fieldNameList |-> <<>>,
     fieldAttrDict |-> EmptyDict,
     fieldValDict |-> EmptyDict]

\* graph.addField(name, *args)
MuninGraphAddField(graph, self, name, args) ==
    [graph EXCEPT
        !.fieldNameList = Append(@, name),
        !.fieldAttrDict = DictPut(@, name,
            Locals(self, [k \in {"name"} |-> StrVal(name)], FieldParams, args))]

MuninGraphHasField(graph, field_name) == HasKey(graph.fieldAttrDict, field_name)

MuninGraphGetFieldList(graph) == graph.fieldNameList

\* the text of an attribute value in a config line
ConfigText(val) == IF val.t = "bool" THEN (IF val.b THEN "yes" ELSE "no")
                   ELSE FormatS(val)

\* the lines one dict of attributes gives, for the keys from position i on
RECURSIVE AttrLines(_, _, _, _)
AttrLines(prefix, dict, keys, i) ==
    IF i > Len(keys) THEN <<>>
    ELSE LET val == DictGet(dict, keys[i], None)
         IN  (IF val # None
              THEN <<prefix \o keys[i] \o " " \o ConfigText(val)>>
              ELSE <<>>) \o AttrLines(prefix, dict, keys, i + 1)

RECURSIVE FieldConfigLines(_, _)
FieldConfigLines(graph, i) ==
    IF i > Len(graph.fieldNameList) THEN <<>>
    ELSE LET field_name == graph.fieldNameList[i]
         IN  AttrLines(field_name \o ".", graph.fieldAttrDict[field_name],
                       FieldAttrKeys, 1)
             \o FieldConfigLines(graph, i + 1)

\* graph.getConfig(): the list conf, whose lines the result joins with newlines
MuninGraphGetConfig(graph) ==
    AttrLines("graph_", graph.graphAttrDict, GraphAttrKeys, 1)
    \o FieldConfigLines(graph, 1)

\* graph.setVal(name, val)
MuninGraphSetVal(graph, name, val) ==
    [graph EXCEPT !.fieldValDict = DictPut(@, name, val)]

\* "%f" % val
FormatF(val) ==
    LET n == IF val.micros < 0 THEN -val.micros ELSE val.micros
    IN  (IF val.micros < 0 THEN "-" ELSE "")
        \o NatToStr(n \div 1000000) \o "." \o PadLeft(NatToStr(n % 1000000), 6)

RECURSIVE ValueLines(_, _)
ValueLines(graph, i) ==
    IF i > Len(graph.fieldNameList) THEN <<>>
    ELSE LET field_name == graph.fieldNameList[i]
             val == DictGet(graph.fieldValDict, field_name, None)
         IN  (IF val # None
              THEN IF val.t = "float"
                   THEN <<field_name \o ".value " \o FormatF(val)>>
                   ELSE <<field_name \o ".value " \o FormatS(val)>>
              ELSE <<>>) \o ValueLines(graph, i + 1)

\* graph.getVals(): the list vals, whose lines the result joins with newlines
MuninGraphGetVals(graph) == ValueLines(graph, 1)

\* print "\n".join(lines): the lines, and one empty line when there are none
PrintJoined(lines) == IF lines = <<>> THEN <<"">> ELSE lines

(***************************************************************************)
(* MuninPlugin.  self is the record of the plugin's attributes; a method   *)
(* gives a record of what the call did: the plugin and the graph objects   *)
(* after it, the lines printed, the exception raised, the value returned   *)
(* and the methods it called.                                              *)
(***************************************************************************)
NoErr == "none"

ErrSimplePlugin == "AttributeError: Simple Munin Plugins cannot have more than one graph."

ErrInvalidParent(parent_name, graph_name) ==
    "Exception: Invalid parent graph name " \o Text(parent_name)
    \o " used for subgraph " \o Text(graph_name) \o "."

ErrInvalidGraph(graph_name) ==
    "Exception: Invalid graph name " \o Text(graph_name) \o " used for setting value."

ErrInvalidParentVal(parent_name, graph_name) ==
    "Exception: Invalid parent graph name " \o Text(parent_name)
    \o " used for setting value for subgraph " \o Text(graph_name) \o "."

ErrInvalidCommand(oper) == "Exception: Invalid command argument: " \o oper

ErrUndefinedFilter(filter_name) == "AttributeError: Undefined filter: " \o filter_name

\* unpacking more than two items into two names
ErrUnpack == "ValueError: too many values to unpack"

\* unpacking n items, n fewer than two, into two names
ErrUnpackShort(n) ==
    "ValueError: need more than " \o NatToStr(n)
    \o (IF n = 1 THEN " value" ELSE " values") \o " to unpack"

\* calling getConfig (mode config) or getVals (mode fetch) on a str
ErrStrNoMethod(mode) ==
    "AttributeError: 'str' object has no attribute '"
    \o (IF mode = "config" THEN "getConfig" ELSE "getVals") \o "'"

Outcome(self, objs, out, err, ret, calls) ==
    [self |-> self, heap |-> objs, out |-> out, err |-> err, ret |-> ret,
     calls |-> calls]

\* the literal keys appendSubgraph stores under
ParentNameLit == <<"p", "a", "r", "e", "n", "t", "_", "n", "a", "m", "e">>

GraphNameLit == <<"g", "r", "a", "p", "h", "_", "n", "a", "m", "e">>

\* val.split(','), from position i with the piece cur read so far
RECURSIVE SplitFrom(_, _, _)
SplitFrom(val, i, cur) ==
    IF i > Len(val) THEN <<cur>>
    ELSE IF val[i] = "," THEN <<cur>> \o SplitFrom(val, i + 1, <<>>)
    ELSE SplitFrom(val, i + 1, Append(cur, val[i]))

SplitComma(val) == SplitFrom(val, 1, <<>>)

\* the list registerFilter reads from the environment for one prefix
FilterList(environ, prefix, filter_name) ==
    LET key == prefix \o "_" \o filter_name
        val == DictGet(environ, key, <<>>)
    IN  IF val # <<>> THEN SplitComma(val) ELSE <<>>

\* self.registerFilter(filter_name, attr_regex): the filters after the call
RegisterFilter(filts, environ, filter_name, attr_regex) ==
    DictPut(filts, filter_name,
            MuninAttrFilterInit(FilterList(environ, "include", filter_name),
                                FilterList(environ, "exclude", filter_name),
                                attr_regex))

\* self._parseEnv(): the value of nestedGraphs after the call
ParseEnvNested(environ) ==
    IF HasKey(environ, "nested_graphs") /\ NestedOffMatch(environ["nested_graphs"])
    THEN FALSE
    ELSE TRUE

\* MuninPlugin(argv, env) of a plugin type with the given isMultigraph; arg0 and
\* _stateFile, which no method modelled here reads, are left out
MuninPluginInit(multigraph, args, environ) ==
    [isMultigraph |-> multigraph,
     argv |-> args,
     env |-> environ,
     nestedGraphs |-> ParseEnvNested(environ),
     filters |-> RegisterFilter(EmptyDict, environ, "graphs", GraphsRegex),
     graphDict |-> EmptyDict,
     graphNames |-> <<>>,
     subGraphDict |-> EmptyDict]

\* self.checkFilter(filter_name, attr): the value returned, or the exception
CheckFilter(self, filter_name, attr) ==
    IF HasKey(self.filters, filter_name)
    THEN [ret |-> FilterCheck(self.filters[filter_name], attr), err |-> NoErr]
    ELSE [ret |-> FALSE, err |-> ErrUndefinedFilter(filter_name)]

GraphEnabled(self, name) == CheckFilter(self, "graphs", name).ret

\* self.appendGraph(name, graph)
AppendGraph(self, objs, name, graph) ==
    LET after == [self EXCEPT !.graphDict = DictPut(@, name, graph),
                              !.graphNames = Append(@, name)]
    IN  Outcome(after, objs, <<>>,
                IF ~after.isMultigraph /\ Len(after.graphNames) > 1
                THEN ErrSimplePlugin ELSE NoErr,
                None, <<"appendGraph">>)

\* an appendSubgraph that stores the entry before it looks the parent up
AppendSubgraph_StoreFirst(self, objs, parent_name, graph_name, graph) ==
    LET stored == [self EXCEPT !.subGraphDict =
                      DictPut(@, ParentNameLit,
                              DictPut(EmptyDict, GraphNameLit, graph))]
    IN  IF ~self.isMultigraph
        THEN Outcome(self, objs, <<>>, ErrSimplePlugin, None, <<"appendSubgraph">>)
        ELSE IF HasKey(self.graphDict, parent_name)
        THEN Outcome(stored, objs, <<>>, NoErr, None, <<"appendSubgraph">>)
        ELSE Outcome(stored, objs, <<>>, ErrInvalidParent(parent_name, graph_name), None,
                     <<"appendSubgraph">>)

\* self.appendSubgraph(parent_name, graph_name, graph)
AppendSubgraph(self, objs, parent_name, graph_name, graph) ==
    IF ~self.isMultigraph
    THEN Outcome(self, objs, <<>>, ErrSimplePlugin, None, <<"appendSubgraph">>)
    ELSE IF HasKey(self.graphDict, parent_name)
    THEN LET d1 == IF ~HasKey(self.subGraphDict, parent_name)
                   THEN DictPut(self.subGraphDict, ParentNameLit, EmptyDict)
                   ELSE self.subGraphDict
             d2 == DictPut(d1, ParentNameLit,
                           DictPut(d1[ParentNameLit], GraphNameLit, graph))
         IN  Outcome([self EXCEPT !.subGraphDict = d2], objs, <<>>, NoErr, None,
                     <<"appendSubgraph">>)
    ELSE Outcome(self, objs, <<>>, ErrInvalidParent(parent_name, graph_name), None,
                     <<"appendSubgraph">>)

\* self.setGraphVal(graph_name, field_name, val)
SetGraphVal(self, objs, graph_name, field_name, val) ==
    IF HasKey(self.graphDict, graph_name)
    THEN LET g == self.graphDict[graph_name]
         IN  Outcome(self, [objs EXCEPT ![g] = MuninGraphSetVal(@, field_name, val)],
                     <<>>, NoErr, None, <<"setGraphVal", "setVal">>)
    ELSE Outcome(self, objs, <<>>, ErrInvalidGraph(graph_name), None,
                 <<"setGraphVal">>)

\* self.setSubgraphVal(parent_name, graph_name, val)
SetSubgraphVal(self, objs, parent_name, graph_name, val) ==
    IF HasKey(self.graphDict, parent_name)
    THEN LET g == self.graphDict[parent_name]
             field == Text(parent_name) \o "." \o Text(graph_name)
         IN  Outcome(self, [objs EXCEPT ![g] = MuninGraphSetVal(@, field, val)],
                     <<>>, NoErr, None, <<"setSubgraphVal", "setVal">>)
    ELSE Outcome(self, objs, <<>>, ErrInvalidParentVal(parent_name, graph_name), None,
                 <<"setSubgraphVal">>)

\* the orders in which the iteration of a dict can visit its keys: the order
\* follows the hashes of the keys, which the interpreter's build and hash seed
\* decide, so that every order of the keys is possible
KeyOrders(d) ==
    {q \in [1..Cardinality(DOMAIN d) -> DOMAIN d] :
        \A k \in DOMAIN d : \E i \in 1..Cardinality(DOMAIN d) : q[i] = k}

\* the first loop of config and of fetch, from position i of _graphNames; mode
\* is "config" (getConfig) or "fetch" (getVals)
GraphText(graph, mode) ==
    IF mode = "config" THEN MuninGraphGetConfig(graph) ELSE MuninGraphGetVals(graph)

RECURSIVE RootBlocks(_, _, _, _)
RootBlocks(self, objs, mode, i) ==
    IF i > Len(self.graphNames) THEN <<>>
    ELSE LET name == self.graphNames[i]
             graph == objs[self.graphDict[name]]
         IN  (IF self.isMultigraph THEN <<"multigraph " \o Text(name)>> ELSE <<>>)
             \o PrintJoined(GraphText(graph, mode))
             \o <<"">>
             \o RootBlocks(self, objs, mode, i + 1)

\* for (graph_name, graph) in subgraphs: the loop over the keys of one inner dict,
\* each key unpacked into two names; what it prints and the exception that ends it
SubgraphLoop(parent_name, keys, mode, i) ==
    IF i > Len(keys) THEN [out |-> <<>>, err |-> NoErr]
    ELSE IF Len(keys[i]) < 2 THEN [out |-> <<>>, err |-> ErrUnpackShort(Len(keys[i]))]
    ELSE IF Len(keys[i]) > 2 THEN [out |-> <<>>, err |-> ErrUnpack]
    ELSE [out |-> <<"multigraph " \o Text(parent_name) \o "." \o keys[i][1]>>,
          err |-> ErrStrNoMethod(mode)]

\* the second loop of config and of fetch, over the items of _subGraphDict, from
\* position i of the order parents: the set of what it can print and raise, one
\* element for each order in which the inner dicts can be visited
RECURSIVE SubgraphBlocks(_, _, _, _)
SubgraphBlocks(self, parents, mode, i) ==
    IF i > Len(parents) THEN {[out |-> <<>>, err |-> NoErr]}
    ELSE LET subgraphs == self.subGraphDict[parents[i]]
             inners == {SubgraphLoop(parents[i], keys, mode, 1) : keys \in KeyOrders(subgraphs)}
         IN  UNION {IF inner.err # NoErr THEN {inner}
                    ELSE {[out |-> inner.out \o rest.out, err |-> rest.err] :
                            rest \in SubgraphBlocks(self, parents, mode, i + 1)} :
                    inner \in inners}

\* the two loops of config and of fetch: the set of the outcomes the call can
\* have, one for each order in which the dict iterations can visit their keys
Render(self, objs, mode, calls) ==
    LET roots == RootBlocks(self, objs, mode, 1)
        subsSet == IF self.nestedGraphs /\ self.subGraphDict # EmptyDict
                   THEN UNION {SubgraphBlocks(self, parents, mode, 1) :
                                 parents \in KeyOrders(self.subGraphDict)}
                   ELSE {[out |-> <<>>, err |-> NoErr]}
    IN  {Outcome(self, objs, roots \o subs.out, subs.err,
                 IF subs.err = NoErr THEN BoolVal(TRUE) ELSE None, calls) :
           subs \in subsSet}

\* self.config(): the outcomes it can have
Config(self, objs) == Render(self, objs, "config", <<"config">>)

\* self.retrieveVals() of the base class: pass
RetrieveVals(self, objs) == objs

\* self.fetch(): the outcomes it can have
Fetch(self, objs) ==
    Render(self, RetrieveVals(self, objs), "fetch", <<"fetch", "retrieveVals">>)

\* self.autoconf() of the base class
Autoconf(self) == FALSE

\* self.suggest() of the base class
Suggest(self) == TRUE

\* a run() whose default subcommand is config
RunOper_DefaultConfig(self) ==
    IF Len(self.argv) > 1 /\ Len(self.argv[2]) > 0 THEN self.argv[2] ELSE "config"

\* the subcommand run() selects from _argv
RunOper(self) ==
    IF Len(self.argv) > 1 /\ Len(self.argv[2]) > 0 THEN self.argv[2] ELSE "fetch"

\* self.run(): the outcomes it can have
Run(self, objs) ==
    LET oper == RunOper(self)
    IN  CASE oper = "fetch" -> Fetch(self, objs)
          [] oper = "config" -> Config(self, objs)
          [] oper = "autoconf" ->
                {Outcome(self, objs, <<IF Autoconf(self) THEN "yes" ELSE "no">>, NoErr,
                         BoolVal(TRUE), <<"autoconf">>)}
          [] oper = "suggest" ->
                {Outcome(self, objs, <<>>, NoErr, BoolVal(Suggest(self)), <<"suggest">>)}
          [] OTHER -> {Outcome(self, objs, <<>>, ErrInvalidCommand(oper), None, <<>>)}

(***************************************************************************)
(* The inputs the model draws from.                                        *)
(***************************************************************************)
GraphIds == {1, 2}

GraphNames == {<<"a">>, <<"b">>}

SubgraphNames == {<<"s">>, <<"t">>}

ProgName == "plugin"

ArgvChoices == {<<>>, <<ProgName>>, <<ProgName, "">>, <<ProgName, "fetch">>,
                <<ProgName, "config">>, <<ProgName, "autoconf">>,
                <<ProgName, "suggest">>, <<ProgName, "bogus">>}

Dict1(k, v) == [x \in {k} |-> v]

Dict2(k1, v1, k2, v2) == [x \in {k1, k2} |-> IF x = k1 THEN v1 ELSE v2]

EnvChoices ==
    {EmptyDict,
     Dict1("nested_graphs", <<"n", "o">>),
     Dict1("nested_graphs", <<"O", "f", "f">>),
     Dict1("nested_graphs", <<"/", "n", "o", "/">>),
     Dict1("nested_graphs", <<"y", "e", "s">>),
     Dict1("include_graphs", <<"a">>),
     Dict1("exclude_graphs", <<"a">>),
     Dict2("include_graphs", <<"a", ",", "b">>, "exclude_graphs", <<"b">>)}

NoCall == [op |-> "none", args |-> <<>>, out |-> <<>>, err |-> NoErr, ret |-> None,
           calls |-> <<>>]

Called(op, args, o) ==
    [op |-> op, args |-> args, out |-> o.out, err |-> o.err, ret |-> o.ret,
     calls |-> o.calls]

\* the graph objects a plugin's constructor has built before it registers them:
\* one with a field and no value, one with a field and its value
BuiltGraphs ==
    [g \in GraphIds |->
        IF g = 1
        THEN MuninGraphAddField(MuninGraphInit(1, <<StrVal("T1")>>), 1, "x",
                                <<StrVal("X")>>)
        ELSE MuninGraphSetVal(
                 MuninGraphAddField(
                     MuninGraphInit(g, <<StrVal("T2"), StrVal("C2")>>), g, "y",
                     <<StrVal("Y"), StrVal("GAUGE")>>),
                 "y", IntVal(7))]

NoFilter == MuninAttrFilterInit(<<>>, <<>>, NoRegex)

NoFilterArgs == [include |-> <<>>, exclude |-> <<>>, regex |-> NoRegex]

(***************************************************************************)
(* Spec: a plugin, the registration of graphs and subgraphs, and run().    *)
(***************************************************************************)
Init ==
    /\ \E m \in BOOLEAN, a \in ArgvChoices, e \in EnvChoices :
            plugin = MuninPluginInit(m, a, e)
    /\ heap = BuiltGraphs
    /\ filter = NoFilter
    /\ filterArgs = NoFilterArgs
    /\ res = NoCall

DoAppendGraph ==
    \E name \in GraphNames, g \in GraphIds :
        /\ Len(plugin.graphNames) < MaxGraphNames
        /\ LET o == AppendGraph(plugin, heap, name, g)
           IN  /\ plugin' = o.self
               /\ heap' = o.heap
               /\ res' = Called("appendGraph", <<name, g>>, o)
        /\ UNCHANGED <<filter, filterArgs>>

DoAppendSubgraph ==
    \E parent \in GraphNames, sub \in SubgraphNames, g \in GraphIds :
        /\ LET o == AppendSubgraph(plugin, heap, parent, sub, g)
           IN  /\ plugin' = o.self
               /\ heap' = o.heap
               /\ res' = Called("appendSubgraph", <<parent, sub, g>>, o)
        /\ UNCHANGED <<filter, filterArgs>>

DoRun ==
    /\ \E o \in Run(plugin, heap) :
           /\ plugin' = o.self
           /\ heap' = o.heap
           /\ res' = Called("run", <<>>, o)
    /\ UNCHANGED <<filter, filterArgs>>

Next == DoAppendGraph \/ DoAppendSubgraph \/ DoRun

Spec == Init /\ [][Next]_vars

(***************************************************************************)
(* Properties of the plugin (Spec).                                        *)
(***************************************************************************)
\* whether the last call was run() and dispatched to config or to fetch
Rendered == res.op = "run" /\ res.calls # <<>> /\ res.calls[1] \in {"config", "fetch"}

RenderedMode == res.calls[1]

\* the block of one root graph name: its marker on a multigraph plugin, the text
\* of the graph registered under the name, and the blank line
RootBlockOf(name, mode) ==
    (IF plugin.isMultigraph THEN <<"multigraph " \o Text(name)>> ELSE <<>>)
    \o PrintJoined(GraphText(heap[plugin.graphDict[name]], mode))
    \o <<"">>

RECURSIVE BlocksOf(_, _)
BlocksOf(names, mode) ==
    IF names = <<>> THEN <<>>
    ELSE RootBlockOf(Head(names), mode) \o BlocksOf(Tail(names), mode)

IsEnabledName(name) == GraphEnabled(plugin, name)

\* C1, as claimed: config() and fetch() emit one block per registered root graph
\* whose name passes the 'graphs' filter, in registration order, and no block for
\* a root graph whose name the filter disables.
C1_FilteredBlocks ==
    Rendered => res.out = BlocksOf(SelectSeq(plugin.graphNames, IsEnabledName),
                                   RenderedMode)

\* C2, as claimed: a plugin that is not multigraph owns at most one root graph
\* and no subgraphs in every reachable state, also after a call that failed.
C2_AtMostOneGraph ==
    ~plugin.isMultigraph =>
        /\ Len(plugin.graphNames) <= 1
        /\ Cardinality(DOMAIN plugin.graphDict) <= 1
        /\ plugin.subGraphDict = EmptyDict

\* C3, as claimed: a successful addSubgraph(parentName, subgraphName, graph)
\* records the graph under its own parent name and its own subgraph name.
C3_SubgraphRecorded ==
    (res.op = "appendSubgraph" /\ res.err = NoErr) =>
        /\ HasKey(plugin.subGraphDict, res.args[1])
        /\ HasKey(plugin.subGraphDict[res.args[1]], res.args[2])
        /\ plugin.subGraphDict[res.args[1]][res.args[2]] = res.args[3]

\* the value of nested_graphs is no or off, in any letter case
SaysNoOrOff(val) ==
    \/ (Len(val) = 2 /\ LitAt(val, 1, <<"n", "o">>))
    \/ (Len(val) = 3 /\ LitAt(val, 1, <<"o", "f", "f">>))

\* C4, as claimed: with nested_graphs set to no or off in any letter case, nested
\* rendering is disabled, and config() and fetch() print the root blocks and no
\* subgraph block.
C4_NestingDisabled ==
    (HasKey(plugin.env, "nested_graphs") /\ SaysNoOrOff(plugin.env["nested_graphs"])) =>
        /\ ~plugin.nestedGraphs
        /\ Rendered => (res.err = NoErr /\ res.out = BlocksOf(plugin.graphNames,
                                                               RenderedMode))

\* the subcommand an argument list names: its second entry, fetch when there is
\* none or it is empty
Subcommand(args) == IF Len(args) > 1 /\ args[2] # "" THEN args[2] ELSE "fetch"

Subcommands == {"fetch", "config", "autoconf", "suggest"}

\* what a caller sees of an outcome of run()
Seen(o) == [out |-> o.out, err |-> o.err, ret |-> o.ret, calls |-> o.calls]

\* C6: run() executes exactly one subcommand: the one its argument names, fetch
\* when there is no argument or an empty one (with the same result as run with
\* fetch: the same outcomes are possible, and the call had one of them), and with
\* any other literal it fails without executing a subcommand: no retrieveVals
\* call and no output.
C6_RunDispatch ==
    res.op = "run" =>
        LET sub == Subcommand(plugin.argv)
            asFetch == {Seen(o) : o \in Run([plugin EXCEPT !.argv = <<ProgName, "fetch">>],
                                            heap)}
        IN  /\ sub \in Subcommands =>
                /\ res.calls # <<>>
                /\ res.calls[1] = sub
                /\ \A i \in 2..Len(res.calls) : res.calls[i] \notin Subcommands
                /\ res.err # ErrInvalidCommand(sub)
            /\ sub = "fetch" =>
                /\ {Seen(o) : o \in Run(plugin, heap)} = asFetch
                /\ Seen(res) \in asFetch
                /\ res.calls = <<"fetch", "retrieveVals">>
            /\ sub \notin Subcommands =>
                /\ res.err = ErrInvalidCommand(sub)
                /\ res.calls = <<>>
                /\ res.out = <<>>

\* C6: run() without a subcommand has fetched the values of a registered graph
C6_Witness ==
    /\ res.op = "run"
    /\ Len(plugin.argv) <= 1
    /\ plugin.graphNames # <<>>
    /\ res.calls = <<"fetch", "retrieveVals">>
    /\ Len(res.out) >= 2

\* C9: addSubgraph on a multigraph plugin with a parent name that is no registered
\* root graph fails with the invalid-parent error and changes nothing: the root
\* graph dict, the root graph names and the subgraph dict are as before the call.
C9_UnknownParentNoChange ==
    [][(res'.op = "appendSubgraph" /\ plugin.isMultigraph
        /\ ~HasKey(plugin.graphDict, res'.args[1]))
       => (/\ res'.err = ErrInvalidParent(res'.args[1], res'.args[2])
           /\ plugin'.graphDict = plugin.graphDict
           /\ plugin'.graphNames = plugin.graphNames
           /\ plugin'.subGraphDict = plugin.subGraphDict
           /\ plugin' = plugin
           /\ heap' = heap)]_vars

\* C9: addSubgraph has failed for an unregistered parent on a multigraph plugin
\* that has a root graph and a subgraph entry
C9_Witness ==
    /\ res.op = "appendSubgraph"
    /\ res.err = ErrInvalidParent(res.args[1], res.args[2])
    /\ plugin.isMultigraph
    /\ plugin.graphNames # <<>>
    /\ plugin.subGraphDict # EmptyDict
    /\ ~HasKey(plugin.graphDict, res.args[1])

(***************************************************************************)
(* GraphSpec: one graph, registered as root graph a of a multigraph        *)
(* plugin; its fields, its values and its two texts.                       *)
(***************************************************************************)
FieldNames == {"x", "y"}

ValueNames == {"x", "y", "u"}

ValChoices == {IntVal(1), FloatVal(3000000)}

\* the positional arguments with only the title, or the title and one more set
OneSet(k, val) == [i \in 1..k |-> IF i = k THEN val ELSE IF i = 1 THEN StrVal("T")
                                                    ELSE None]

GraphArgChoices ==
    {<<StrVal("T")>>, <<None>>,
     <<StrVal("T"), StrVal("C"), StrVal("V"), StrVal("I"), StrVal("A"),
       StrVal("minute"), BoolVal(TRUE), StrVal("Total"), StrVal("x y"),
       StrVal("%6.2lf"), IntVal(400), IntVal(175)>>}
    \cup {OneSet(k, StrVal("v")) : k \in {2, 3, 4, 5, 6, 8, 9, 10}}
    \cup {OneSet(7, BoolVal(b)) : b \in BOOLEAN}
    \cup {OneSet(k, IntVal(400)) : k \in {11, 12}}

FieldArgChoices ==
    {<<StrVal("L")>>,
     <<StrVal("M"), StrVal("GAUGE"), None, None, None, None, None, BoolVal(FALSE),
       FloatVal(500000)>>}

GraphInit ==
    /\ \E args \in GraphArgChoices : heap = [g \in {1} |-> MuninGraphInit(1, args)]
    /\ plugin = AppendGraph(MuninPluginInit(TRUE, <<ProgName>>, EmptyDict), heap,
                            <<"a">>, 1).self
    /\ filter = NoFilter
    /\ filterArgs = NoFilterArgs
    /\ res = NoCall

DoAddField ==
    \E name \in FieldNames, args \in FieldArgChoices :
        /\ Len(heap[1].fieldNameList) < MaxFields
        /\ heap' = [heap EXCEPT ![1] = MuninGraphAddField(@, 1, name, args)]
        /\ res' = [NoCall EXCEPT !.op = "addField", !.args = <<name, args>>,
                                 !.calls = <<"addField">>]
        /\ UNCHANGED <<plugin, filter, filterArgs>>

DoSetVal ==
    \E name \in ValueNames, val \in ValChoices :
        /\ heap' = [heap EXCEPT ![1] = MuninGraphSetVal(@, name, val)]
        /\ res' = [NoCall EXCEPT !.op = "setVal", !.args = <<name, val>>,
                                 !.calls = <<"setVal">>]
        /\ UNCHANGED <<plugin, filter, filterArgs>>

DoSetGraphVal ==
    \E graph_name \in GraphNames, field_name \in ValueNames :
        /\ LET o == SetGraphVal(plugin, heap, graph_name, field_name, IntVal(1))
           IN  /\ plugin' = o.self
               /\ heap' = o.heap
               /\ res' = Called("setGraphVal", <<graph_name, field_name, IntVal(1)>>, o)
        /\ UNCHANGED <<filter, filterArgs>>

DoSetSubgraphVal ==
    \E parent_name \in GraphNames :
        /\ LET o == SetSubgraphVal(plugin, heap, parent_name, <<"s">>, IntVal(1))
           IN  /\ plugin' = o.self
               /\ heap' = o.heap
               /\ res' = Called("setSubgraphVal", <<parent_name, <<"s">>, IntVal(1)>>, o)
        /\ UNCHANGED <<filter, filterArgs>>

DoGetConfig ==
    /\ res' = [NoCall EXCEPT !.op = "getConfig", !.out = MuninGraphGetConfig(heap[1]),
                             !.calls = <<"getConfig">>]
    /\ UNCHANGED <<plugin, heap, filter, filterArgs>>

DoGetVals ==
    /\ res' = [NoCall EXCEPT !.op = "getVals", !.out = MuninGraphGetVals(heap[1]),
                             !.calls = <<"getVals">>]
    /\ UNCHANGED <<plugin, heap, filter, filterArgs>>

GraphNext ==
    \/ DoAddField
    \/ DoSetVal
    \/ DoSetGraphVal
    \/ DoSetSubgraphVal
    \/ DoGetConfig
    \/ DoGetVals

GraphSpec == GraphInit /\ [][GraphNext]_vars

(***************************************************************************)
(* FilterSpec: a filter constructed from two lists and a regex, and check; *)
(* a plugin whose environment spells the same two lists, its registerFilter *)
(* and its checkFilter.                                                    *)
(***************************************************************************)
AttrNames == {<<"a">>, <<"a", "-">>, <<"a", ".">>}

RECURSIVE ListsUpTo(_)
ListsUpTo(n) ==
    IF n = 0 THEN {<<>>}
    ELSE LET shorter == ListsUpTo(n - 1)
         IN  shorter \cup {Append(l, a) : l \in shorter, a \in AttrNames}

RegexChoices == {NoRegex, WordRegex, GraphsRegex}

\* the patterns registerFilter is called with: its default, and None
RegisterRegexChoices == {WordRegex, NoRegex}

FilterNames == {"graphs", "fields"}

\* ",".join(list)
RECURSIVE JoinComma(_)
JoinComma(list) ==
    IF list = <<>> THEN <<>>
    ELSE IF Len(list) = 1 THEN Head(list)
    ELSE Head(list) \o <<",">> \o JoinComma(Tail(list))

\* the environment that spells the two lists for every filter name: include_<name>
\* is unset for an empty list, exclude_<name> is set, to the empty string for an
\* empty list
ListsEnv(inc, exc) ==
    LET includeKeys == {"include_" \o n : n \in FilterNames}
        excludeKeys == {"exclude_" \o n : n \in FilterNames}
    IN  [k \in (IF inc = <<>> THEN {} ELSE includeKeys) \cup excludeKeys |->
            IF k \in includeKeys THEN JoinComma(inc) ELSE JoinComma(exc)]

FilterInit ==
    /\ \E inc \in ListsUpTo(MaxListLen), exc \in ListsUpTo(MaxListLen),
          re \in RegexChoices :
            /\ filterArgs = [include |-> inc, exclude |-> exc, regex |-> re]
            /\ filter = MuninAttrFilterInit(inc, exc, re)
            /\ plugin = MuninPluginInit(FALSE, <<>>, ListsEnv(inc, exc))
    /\ heap = EmptyDict
    /\ res = NoCall

DoCheck ==
    \E attr \in AttrNames :
        /\ res' = [NoCall EXCEPT !.op = "check", !.args = <<attr>>,
                                 !.ret = BoolVal(FilterCheck(filter, attr)),
                                 !.calls = <<"check">>]
        /\ UNCHANGED <<plugin, heap, filter, filterArgs>>

DoCheckFilter ==
    \E filter_name \in FilterNames, attr \in AttrNames :
        /\ LET c == CheckFilter(plugin, filter_name, attr)
           IN  res' = [NoCall EXCEPT !.op = "checkFilter",
                                     !.args = <<filter_name, attr>>,
                                     !.err = c.err,
                                     !.ret = IF c.err = NoErr THEN BoolVal(c.ret)
                                             ELSE None,
                                     !.calls = <<"checkFilter">>]
        /\ UNCHANGED <<plugin, heap, filter, filterArgs>>

DoRegisterFilter ==
    \E filter_name \in FilterNames, attr_regex \in RegisterRegexChoices :
        /\ plugin' = [plugin EXCEPT !.filters =
                         RegisterFilter(@, plugin.env, filter_name, attr_regex)]
        /\ res' = [NoCall EXCEPT !.op = "registerFilter",
                                 !.args = <<filter_name, attr_regex>>,
                                 !.calls = <<"registerFilter">>]
        /\ UNCHANGED <<heap, filter, filterArgs>>

FilterNext == DoCheck \/ DoCheckFilter \/ DoRegisterFilter

FilterSpec == FilterInit /\ [][FilterNext]_vars

(***************************************************************************)
(* Properties of the filter (FilterSpec).                                  *)
(***************************************************************************)
Range(seq) == {seq[i] : i \in 1..Len(seq)}

\* every name of the two lists passes the filter's regex, or there is no regex
AllNamesValid ==
    \/ filterArgs.regex = NoRegex
    \/ \A n \in Range(filterArgs.include) \cup Range(filterArgs.exclude) :
            RegexMatch(filterArgs.regex, n)

\* C5: for a filter with no validation pattern or with only valid names in its
\* lists, isEnabled(name) is false for a name of the exclude list, also when the
\* name is in the include list; otherwise true for a name of the include list;
\* otherwise true exactly when the include list is empty.
C5_IncludeExclude ==
    AllNamesValid =>
        \A attr \in AttrNames :
            /\ FilterCheck(filter, attr) =
                  (IF attr \in Range(filterArgs.exclude) THEN FALSE
                   ELSE IF attr \in Range(filterArgs.include) THEN TRUE
                   ELSE filterArgs.include = <<>>)
            /\ (res.op = "check" /\ res.args[1] = attr) =>
                  res.ret = BoolVal(IF attr \in Range(filterArgs.exclude) THEN FALSE
                                    ELSE IF attr \in Range(filterArgs.include) THEN TRUE
                                    ELSE filterArgs.include = <<>>)

\* C5: check has answered no for a name that is in both lists
C5_Witness ==
    /\ AllNamesValid
    /\ res.op = "check"
    /\ res.args[1] \in Range(filterArgs.include)
    /\ res.args[1] \in Range(filterArgs.exclude)
    /\ res.ret = BoolVal(FALSE)

(***************************************************************************)
(* Properties of the graph (GraphSpec).                                    *)
(***************************************************************************)
\* C7, as claimed: every name that has a current value in a graph is the name of
\* a field added with addField: setVal for a name never added, also through
\* setGraphVal and setSubgraphVal, fails and stores no value.
C7_ValuesOnlyForFields ==
    \A g \in DOMAIN heap :
        DOMAIN heap[g].fieldValDict \subseteq Range(heap[g].fieldNameList)

\* C8, as claimed: the field name sequence of a graph holds each name at most
\* once: addField with a registered name fails and leaves the sequence unchanged.
C8_FieldNamesUnique ==
    \A g \in DOMAIN heap :
        \A i, j \in 1..Len(MuninGraphGetFieldList(heap[g])) :
            MuninGraphGetFieldList(heap[g])[i] = MuninGraphGetFieldList(heap[g])[j]
                => i = j

\* the display attributes, in the order of the constructor's parameters
DisplayAttrs == <<"title", "category", "vlabel", "info", "args", "period", "scale",
                  "total", "order", "printfformat", "width", "height">>

\* the value the constructor was given for its k-th parameter after self
ConstructedWith(graph, k) == graph.graphAttrDict[GraphInitParams[k]]

\* the lines graph_<attr> <value> of the display attributes set at construction,
\* from the k-th on
RECURSIVE DisplayLines(_, _)
DisplayLines(graph, k) ==
    IF k > Len(DisplayAttrs) THEN <<>>
    ELSE (IF ConstructedWith(graph, k) # None
          THEN <<"graph_" \o DisplayAttrs[k] \o " "
                 \o (IF ConstructedWith(graph, k) = BoolVal(TRUE) THEN "yes"
                     ELSE IF ConstructedWith(graph, k) = BoolVal(FALSE) THEN "no"
                     ELSE FormatS(ConstructedWith(graph, k)))>>
          ELSE <<>>) \o DisplayLines(graph, k + 1)

\* C10, as claimed: getConfig emits one graph_<attr> <value> line for every
\* display attribute set at construction, title to height in the fixed order,
\* then the field lines; an unset attribute emits no line and a boolean renders
\* as yes or no.
C10_DisplayAttrLines ==
    res.op = "getConfig" =>
        res.out = DisplayLines(heap[1], 1) \o FieldConfigLines(heap[1], 1)

\* the names of a sequence, each once, in the order of their first occurrence
RECURSIVE FirstOccurrences(_, _)
FirstOccurrences(seq, i) ==
    IF i > Len(seq) THEN <<>>
    ELSE (IF \E j \in 1..(i - 1) : seq[j] = seq[i] THEN <<>> ELSE <<seq[i]>>)
         \o FirstOccurrences(seq, i + 1)

\* whether the graph holds a value for the field name
HasSetValue(graph, name) ==
    HasKey(graph.fieldValDict, name) /\ graph.fieldValDict[name] # None

\* the line <name>.value <value> of each name of the sequence that has a set value
RECURSIVE ValueLinesOf(_, _)
ValueLinesOf(graph, names) ==
    IF names = <<>> THEN <<>>
    ELSE (IF HasSetValue(graph, Head(names))
          THEN <<Head(names) \o ".value "
                 \o (IF graph.fieldValDict[Head(names)].t = "float"
                     THEN FormatF(graph.fieldValDict[Head(names)])
                     ELSE FormatS(graph.fieldValDict[Head(names)]))>>
          ELSE <<>>) \o ValueLinesOf(graph, Tail(names))

\* C11, as claimed: getVals emits exactly one <fieldName>.value <value> line for
\* each registered field that has a set value, in field registration order
\* whatever the order the values were set in, and no line for a field without a
\* set value.
C11_OneValueLinePerField ==
    res.op = "getVals" =>
        res.out = ValueLinesOf(heap[1], FirstOccurrences(heap[1].fieldNameList, 1))

(***************************************************************************)
(* Properties of filters with a validation pattern (FilterSpec).           *)
(***************************************************************************)
\* the list an environment entry gives: its value split at the commas, the empty
\* list when the entry is absent or empty
EnvList(key) ==
    IF HasKey(plugin.env, key) /\ plugin.env[key] # <<>>
    THEN SplitComma(plugin.env[key])
    ELSE <<>>

\* what C12 says of a filter built from the two lists with the pattern: a name
\* that fails the pattern has no override and check answers the default for it;
\* the default is false exactly when the include list is not empty; and when no
\* include entry passes the pattern, the filter disables every name
IgnoresInvalidNames(flt, include, exclude, regex) ==
    /\ flt.default = (include = <<>>)
    /\ \A attr \in AttrNames :
          ~RegexMatch(regex, attr) =>
              /\ ~HasKey(flt.attrs, attr)
              /\ FilterCheck(flt, attr) = (include = <<>>)
    /\ (include # <<>> /\ \A n \in Range(include) : ~RegexMatch(regex, n)) =>
          \A attr \in AttrNames : ~FilterCheck(flt, attr)

\* C12: for a filter with a validation pattern, a name of the include or exclude
\* list that does not match the pattern is never inserted into the overrides, so
\* isEnabled of that name is defaultEnabled; and defaultEnabled is false whenever
\* the include list is not empty, also when every include entry failed the
\* pattern, so that such a filter disables every name.  The same holds of every
\* filter that registerFilter has built with a pattern from include_<name> and
\* exclude_<name>, and of what checkFilter answers from it.
C12_InvalidNamesIgnored ==
    /\ filterArgs.regex # NoRegex =>
          /\ IgnoresInvalidNames(filter, filterArgs.include, filterArgs.exclude,
                                 filterArgs.regex)
          /\ (res.op = "check" /\ ~RegexMatch(filterArgs.regex, res.args[1])) =>
                res.ret = BoolVal(filterArgs.include = <<>>)
    /\ \A name \in DOMAIN plugin.filters :
          plugin.filters[name].regex # NoRegex =>
              /\ IgnoresInvalidNames(plugin.filters[name], EnvList("include_" \o name),
                                     EnvList("exclude_" \o name),
                                     plugin.filters[name].regex)
              /\ (res.op = "checkFilter" /\ res.args[1] = name
                  /\ ~RegexMatch(plugin.filters[name].regex, res.args[2])) =>
                    res.ret = BoolVal(EnvList("include_" \o name) = <<>>)

\* C12: check has answered no for an include entry that fails the pattern, in a
\* filter whose include entries all fail it and whose exclude list holds an
\* invalid name too
C12_Witness ==
    /\ filterArgs.regex # NoRegex
    /\ filterArgs.include # <<>>
    /\ \A n \in Range(filterArgs.include) : ~RegexMatch(filterArgs.regex, n)
    /\ \E n \in Range(filterArgs.exclude) : ~RegexMatch(filterArgs.regex, n)
    /\ filter.attrs = EmptyDict
    /\ res.op = "check"
    /\ res.args[1] \in Range(filterArgs.include)
    /\ res.ret = BoolVal(FALSE)

====
